---- MODULE Spec2Model ----
(***************************************************************************)
(* The catalog schema of catalog/models.py as a state machine: the tables  *)
(* Author, Genre, Book, BookInstance and the auth User table are the       *)
(* state, the storage operations the field declarations govern (create,    *)
(* update, delete, with unique / on_delete / choices / blank semantics)    *)
(* and the derived accessors (display_genre, __str__, is_overdue) are the  *)
(* actions.                                                                *)
(***************************************************************************)
EXTENDS Integers, Sequences, FiniteSets, TLC

\* ---- bounds of the model -------------------------------------------------
MaxAuthors == 2
MaxUsers == 2
MaxBooks == 2
MaxInstances == 2
MaxGenres == 4
MaxDay == 2
\* rows of BookInstance followed through the calendar (SpecOverdue)
MaxDated == 1
\* rows of each table when all four related tables are populated (SpecRef)
MaxRelated == 1

VARIABLES
    today,      \* date.today(), as a day ordinal
    authors,    \* Author table: set of primary keys
    users,      \* auth User table: set of primary keys
    genres,     \* Genre table: primary key -> name
    books,      \* Book table: primary key -> [title, author, isbn, genre]
    instances,  \* BookInstance table: primary key -> [book, imprint, due_back, borrower, status]
    result      \* outcome of the last operation, as its caller sees it

vars == <<today, authors, users, genres, books, instances, result>>

tables == <<authors, users, genres, books, instances>>

\* ---- schema constants ----------------------------------------------------
\* null=True columns hold NULL; primary keys and day ordinals start at 1.
NULL == 0

LOAN_STATUS == {"m", "o", "a", "r"}

StatusDefault == "m"

StatusBlank == TRUE

AuthorIds == 1..MaxAuthors

UserIds == 1..MaxUsers

BookIds == 1..MaxBooks

InstanceIds == 1..MaxInstances

GenreIds == 1..MaxGenres

Days == 1..MaxDay

Isbns == {"9780000000001", "9780000000002"}

Titles == {"Emma", "Ulysses"}

Imprints == {"Penguin 1999", "Vintage 2004"}

\* The name each genre is entered with; names need not be unique.
GenreNameOf == <<"Fantasy", "Poetry", "Crime", "Fantasy", "Essay", "Drama">>

StatusInputs == LOAN_STATUS \cup {"", "x"}

DatedIds == 1..MaxDated

RelatedIds == 1..MaxRelated

\* ---- the caller's view of an operation -----------------------------------
Res(op, id, arg, outcome) ==
    [op |-> op, id |-> id, arg |-> arg, outcome |-> outcome,
     text |-> "", flag |-> FALSE, affected |-> {}]

Drop(f, k) == [x \in DOMAIN f \ {k} |-> f[x]]

\* ---- Author ---------------------------------------------------------------
CreateAuthor(a) ==
    /\ a \notin authors
    /\ authors' = authors \cup {a}
    /\ result' = Res("Author.create", a, "", "ok")
    /\ UNCHANGED <<today, users, genres, books, instances>>

\* Book.author: on_delete that removes the referring Books (CASCADE).
OnDeleteAuthorCascade(bs, a) ==
    [b \in {x \in DOMAIN bs : bs[x].author # a} |-> bs[b]]

\* Book.author: on_delete that leaves the reference in place (DO_NOTHING).
OnDeleteAuthorNothing(bs, a) == bs

\* Book.author = ForeignKey('Author', on_delete=SET_NULL, null=True)
OnDeleteAuthor(bs, a) ==
    [b \in DOMAIN bs |->
        IF bs[b].author = a THEN [bs[b] EXCEPT !.author = NULL] ELSE bs[b]]

DeleteAuthor(a) ==
    /\ a \in authors
    /\ authors' = authors \ {a}
    /\ books' = OnDeleteAuthor(books, a)
    /\ result' = [Res("Author.delete", a, "", "ok") EXCEPT
                    !.affected = {b \in DOMAIN books : books[b].author = a}]
    /\ UNCHANGED <<today, users, genres, instances>>

\* ---- User -----------------------------------------------------------------
CreateUser(u) ==
    /\ u \notin users
    /\ users' = users \cup {u}
    /\ result' = Res("User.create", u, "", "ok")
    /\ UNCHANGED <<today, authors, genres, books, instances>>

\* BookInstance.borrower: on_delete that also resets the loan fields.
OnDeleteUserReset(is, u) ==
    [i \in DOMAIN is |->
        IF is[i].borrower = u
        THEN [is[i] EXCEPT !.borrower = NULL, !.due_back = NULL, !.status = StatusDefault]
        ELSE is[i]]

\* BookInstance.borrower = ForeignKey(User, on_delete=SET_NULL, null=True)
OnDeleteUser(is, u) ==
    [i \in DOMAIN is |->
        IF is[i].borrower = u THEN [is[i] EXCEPT !.borrower = NULL] ELSE is[i]]

DeleteUser(u) ==
    /\ u \in users
    /\ users' = users \ {u}
    /\ instances' = OnDeleteUser(instances, u)
    /\ result' = [Res("User.delete", u, "", "ok") EXCEPT
                    !.affected = {i \in DOMAIN instances : instances[i].borrower = u}]
    /\ UNCHANGED <<today, authors, genres, books>>

\* ---- Book -----------------------------------------------------------------
\* A foreign key column accepts NULL (null=True) or the key of a stored row.
FkOk(ref, table) == ref = NULL \/ ref \in table

\* isbn column without the unique index.
IsbnTakenNever(isbn, self) == FALSE

\* isbn = CharField('ISBN', max_length=13, unique=True): the unique index
\* rejects a value held by another row.
IsbnTaken(isbn, self) ==
    \E b \in DOMAIN books : b # self /\ books[b].isbn = isbn

CreateBook(b, title, author, isbn) ==
    /\ b \notin DOMAIN books
    /\ IF IsbnTaken(isbn, b) \/ ~FkOk(author, authors)
       THEN /\ result' = Res("Book.create", b, isbn, "IntegrityError")
            /\ UNCHANGED books
       ELSE /\ books' = books @@ (b :> [title |-> title, author |-> author,
                                        isbn |-> isbn, genre |-> <<>>])
            /\ result' = Res("Book.create", b, isbn, "ok")
    /\ UNCHANGED <<today, authors, users, genres, instances>>

UpdateBook(b, title, author, isbn) ==
    /\ b \in DOMAIN books
    /\ IF IsbnTaken(isbn, b) \/ ~FkOk(author, authors)
       THEN /\ result' = Res("Book.update", b, isbn, "IntegrityError")
            /\ UNCHANGED books
       ELSE /\ books' = [books EXCEPT ![b] = [@ EXCEPT !.title = title,
                                     !.author = author, !.isbn = isbn]]
            /\ result' = Res("Book.update", b, isbn, "ok")
    /\ UNCHANGED <<today, authors, users, genres, instances>>

\* BookInstance.book with an on_delete that never blocks.
RestrictedByNone(b) == {}

\* BookInstance.book = ForeignKey('Book', on_delete=RESTRICT, null=True):
\* the rows that block the deletion of Book b.
RestrictedBy(b) == {i \in DOMAIN instances : instances[i].book = b}

\* Deleting a Book also deletes its rows of the genre through table, which
\* are the genre field of the record.
DeleteBook(b) ==
    /\ b \in DOMAIN books
    /\ IF RestrictedBy(b) # {}
       THEN /\ result' = Res("Book.delete", b, "", "RestrictedError")
            /\ UNCHANGED books
       ELSE /\ books' = Drop(books, b)
            /\ result' = Res("Book.delete", b, "", "ok")
    /\ UNCHANGED <<today, authors, users, genres, instances>>

\* ---- Genre and the Book.genre through table ----------------------------
CreateGenre(g, name) ==
    /\ g \notin DOMAIN genres
    /\ genres' = genres @@ (g :> name)
    /\ result' = Res("Genre.create", g, "", "ok")
    /\ UNCHANGED <<today, authors, users, books, instances>>

Without(s, g) == SelectSeq(s, LAMBDA x : x # g)

Range(s) == {s[k] : k \in DOMAIN s}

\* Deleting a Genre deletes its rows of the through table.
DeleteGenre(g) ==
    /\ g \in DOMAIN genres
    /\ genres' = Drop(genres, g)
    /\ books' = [b \in DOMAIN books |-> [books[b] EXCEPT !.genre = Without(@, g)]]
    /\ result' = Res("Genre.delete", g, "", "ok")
    /\ UNCHANGED <<today, authors, users, instances>>

\* book.genre.add(g): a new through row, after the existing ones; a genre
\* that is already attached is not attached twice.
AttachGenre(b, g) ==
    /\ b \in DOMAIN books
    /\ g \in DOMAIN genres
    /\ books' = [books EXCEPT ![b].genre =
                    IF g \in Range(@) THEN @ ELSE Append(@, g)]
    /\ result' = Res("Book.genre.add", b, "", "ok")
    /\ UNCHANGED <<today, authors, users, genres, instances>>

\* book.genre.remove(g)
DetachGenre(b, g) ==
    /\ b \in DOMAIN books
    /\ g \in Range(books[b].genre)
    /\ books' = [books EXCEPT ![b].genre = Without(@, g)]
    /\ result' = Res("Book.genre.remove", b, "", "ok")
    /\ UNCHANGED <<today, authors, users, genres, instances>>

\* self.genre.all(): Genre declares no Meta.ordering and the query has no
\* order_by, so the rows come back in an order the database chooses: any
\* arrangement of the attached genres.
GenreAll(attached) ==
    {p \in [1..Len(attached) -> Range(attached)] : Range(p) = Range(attached)}

\* [:4]
SliceFour(s) == SubSeq(s, 1, IF Len(s) < 4 THEN Len(s) ELSE 4)

\* [:3]
SliceThree(s) == SubSeq(s, 1, IF Len(s) < 3 THEN Len(s) ELSE 3)

\* sep.join(strs)
RECURSIVE Join(_, _)
Join(sep, strs) ==
    IF Len(strs) = 0 THEN ""
    ELSE IF Len(strs) = 1 THEN strs[1]
    ELSE strs[1] \o sep \o Join(sep, Tail(strs))

\* genre.name for genre in ...
NamesOf(gs) == [k \in 1..Len(gs) |-> genres[gs[k]]]

\* Book.display_genre
DisplayGenre(b) ==
    /\ b \in DOMAIN books
    /\ \E rows \in GenreAll(books[b].genre) :
           result' = [Res("Book.display_genre", b, "", "ok") EXCEPT
                        !.text = Join(", ", NamesOf(SliceThree(rows)))]
    /\ UNCHANGED <<today, tables>>

\* ---- BookInstance ---------------------------------------------------------
\* The status argument of a create that passes no status.
Omitted == "<omitted>"

\* default='m'
StatusOrDefault(s) == IF s = Omitted THEN StatusDefault ELSE s

\* choices=LOAN_STATUS, blank=True: what model validation (full_clean)
\* accepts; blank=True lets the empty value through before choices are looked at.
StatusValid(s) == s \in LOAN_STATUS \/ (StatusBlank /\ s = "")

InstanceRow(book, imprint, due, borrower, status) ==
    [book |-> book, imprint |-> imprint, due_back |-> due,
     borrower |-> borrower, status |-> StatusOrDefault(status)]

\* The outcome of writing a row: with clean, full_clean() runs before save()
\* (as forms and the admin do) and rejects an invalid choice or a missing
\* referenced row; save() itself only meets the foreign key constraints.
InstanceWrite(row, clean) ==
    LET fks == FkOk(row.book, DOMAIN books) /\ FkOk(row.borrower, users)
    IN  IF clean /\ ~(StatusValid(row.status) /\ fks) THEN "ValidationError"
        ELSE IF ~fks THEN "IntegrityError"
        ELSE "ok"

CreateInstance(i, book, imprint, due, borrower, status, clean) ==
    LET row == InstanceRow(book, imprint, due, borrower, status)
        out == InstanceWrite(row, clean)
    IN  /\ i \notin DOMAIN instances
        /\ instances' = IF out = "ok" THEN instances @@ (i :> row) ELSE instances
        /\ result' = Res("BookInstance.create", i, "", out)
        /\ UNCHANGED <<today, authors, users, genres, books>>

UpdateInstance(i, book, imprint, due, borrower, status, clean) ==
    LET row == InstanceRow(book, imprint, due, borrower, status)
        out == InstanceWrite(row, clean)
    IN  /\ i \in DOMAIN instances
        /\ status # Omitted
        /\ instances' = IF out = "ok" THEN [instances EXCEPT ![i] = row] ELSE instances
        /\ result' = Res("BookInstance.update", i, "", out)
        /\ UNCHANGED <<today, authors, users, genres, books>>

DeleteInstance(i) ==
    /\ i \in DOMAIN instances
    /\ instances' = Drop(instances, i)
    /\ result' = Res("BookInstance.delete", i, "", "ok")
    /\ UNCHANGED <<today, authors, users, genres, books>>

\* str(self.id)
IdStr(i) == ToString(i)

\* BookInstance.__str__: f'{self.id}({self.book.title})'; self.book is None
\* when the column is NULL, and None has no attribute title.
StrInstance(i) ==
    /\ i \in DOMAIN instances
    /\ result' =
         IF instances[i].book = NULL
         THEN Res("BookInstance.__str__", i, "", "AttributeError")
         ELSE [Res("BookInstance.__str__", i, "", "ok") EXCEPT
                 !.text = IdStr(i) \o "(" \o books[instances[i].book].title \o ")"]
    /\ UNCHANGED <<today, tables>>

\* Truth value of self.due_back: None is false, every date is true.
Truthy(d) == d # NULL

\* is_overdue that also looks at the loan status.
IsOverdueOnLoan(row, now) ==
    IF Truthy(row.due_back) /\ now > row.due_back /\ row.status = "o" THEN TRUE ELSE FALSE

\* is_overdue with >= for >.
IsOverdueInclusive(row, now) ==
    IF Truthy(row.due_back) /\ now >= row.due_back THEN TRUE ELSE FALSE

\* BookInstance.is_overdue
IsOverdue(row, now) ==
    IF Truthy(row.due_back) /\ now > row.due_back THEN TRUE ELSE FALSE

\* Reading the property instance.is_overdue
ReadOverdue(i) ==
    /\ i \in DOMAIN instances
    /\ result' = [Res("BookInstance.is_overdue", i, "", "ok") EXCEPT
                    !.flag = IsOverdue(instances[i], today)]
    /\ UNCHANGED <<today, tables>>

\* The calendar moves on to the next day.
Tick ==
    /\ today < MaxDay
    /\ today' = today + 1
    /\ UNCHANGED <<tables, result>>

\* ---- initial state: empty tables -----------------------------------------
Init ==
    /\ today = 1
    /\ authors = {}
    /\ users = {}
    /\ genres = << >>
    /\ books = << >>
    /\ instances = << >>
    /\ result = Res("none", NULL, "", "ok")

\* ---- Author and Book tables ----------------------------------------------
NextCatalog ==
    \/ \E a \in AuthorIds : CreateAuthor(a)
    \/ \E a \in AuthorIds : DeleteAuthor(a)
    \/ \E b \in BookIds, a \in AuthorIds \cup {NULL}, n \in Isbns :
           CreateBook(b, "Emma", a, n)
    \/ \E b \in BookIds, a \in AuthorIds \cup {NULL}, n \in Isbns :
           UpdateBook(b, "Emma", a, n)
    \/ \E b \in BookIds : DeleteBook(b)

SpecCatalog == Init /\ [][NextCatalog]_vars

\* ---- Book and BookInstance tables ------------------------------------------
NextCopies ==
    \/ \E b \in BookIds, t \in Titles, n \in Isbns : CreateBook(b, t, NULL, n)
    \/ \E b \in BookIds : DeleteBook(b)
    \/ \E i \in InstanceIds, b \in BookIds \cup {NULL}, c \in BOOLEAN :
           CreateInstance(i, b, "Penguin 1999", NULL, NULL, Omitted, c)
    \/ \E i \in InstanceIds, b \in BookIds \cup {NULL}, c \in BOOLEAN :
           UpdateInstance(i, b, "Penguin 1999", NULL, NULL, StatusDefault, c)
    \/ \E i \in InstanceIds : DeleteInstance(i)
    \/ \E i \in InstanceIds : StrInstance(i)

SpecCopies == Init /\ [][NextCopies]_vars

\* ---- User and BookInstance tables: loans ---------------------------------
\* A copy is entered either on the shelf (no due date, default status) or on
\* loan (due date, status 'o').
NextBorrow ==
    \/ \E u \in UserIds : CreateUser(u)
    \/ \E u \in UserIds : DeleteUser(u)
    \/ \E i \in InstanceIds, m \in Imprints, u \in UserIds \cup {NULL}, c \in BOOLEAN :
           \/ CreateInstance(i, NULL, m, NULL, u, Omitted, c)
           \/ CreateInstance(i, NULL, m, 1, u, "o", c)
    \/ \E i \in InstanceIds, u \in UserIds \cup {NULL}, c \in BOOLEAN :
           UpdateInstance(i, NULL, instances[i].imprint, instances[i].due_back, u,
                          instances[i].status, c)
    \/ \E i \in InstanceIds : DeleteInstance(i)

SpecBorrow == Init /\ [][NextBorrow]_vars

\* ---- BookInstance rows and the calendar ------------------------------------
NextOverdue ==
    \/ CreateUser(1)
    \/ DeleteUser(1)
    \/ \E i \in DatedIds, d \in Days \cup {NULL}, u \in {1, NULL},
          s \in {"o", "a", Omitted}, c \in BOOLEAN :
           CreateInstance(i, NULL, "Penguin 1999", d, u, s, c)
    \/ \E i \in DatedIds, d \in Days \cup {NULL}, u \in {1, NULL},
          s \in {"o", "a", "m"}, c \in BOOLEAN :
           UpdateInstance(i, NULL, "Penguin 1999", d, u, s, c)
    \/ \E i \in DatedIds : DeleteInstance(i)
    \/ \E i \in DatedIds : ReadOverdue(i)
    \/ Tick

SpecOverdue == Init /\ [][NextOverdue]_vars

\* ---- the status column ------------------------------------------------------
\* Every write goes through model validation, the one path on which choices
\* and blank are looked at.
NextStatus ==
    \/ \E i \in InstanceIds, s \in StatusInputs \cup {Omitted} :
           CreateInstance(i, NULL, "Penguin 1999", NULL, NULL, s, TRUE)
    \/ \E i \in InstanceIds, s \in StatusInputs :
           UpdateInstance(i, NULL, "Penguin 1999", NULL, NULL, s, TRUE)
    \/ \E i \in InstanceIds : DeleteInstance(i)

SpecStatus == Init /\ [][NextStatus]_vars

\* ---- Genre table and the genres of one Book --------------------------------
NextGenre ==
    \/ CreateBook(1, "Emma", NULL, "9780000000001")
    \/ DeleteBook(1)
    \/ \E g \in GenreIds : CreateGenre(g, GenreNameOf[g])
    \/ \E g \in GenreIds : DeleteGenre(g)
    \/ \E g \in GenreIds : AttachGenre(1, g)
    \/ \E g \in GenreIds : DetachGenre(1, g)
    \/ DisplayGenre(1)

SpecGenre == Init /\ [][NextGenre]_vars

\* ---- all four related tables -----------------------------------------------
NextRef ==
    \/ \E a \in RelatedIds : CreateAuthor(a)
    \/ \E a \in RelatedIds : DeleteAuthor(a)
    \/ \E u \in RelatedIds : CreateUser(u)
    \/ \E u \in RelatedIds : DeleteUser(u)
    \/ \E b \in RelatedIds, a \in RelatedIds \cup {NULL}, n \in Isbns :
           CreateBook(b, "Emma", a, n)
    \/ \E b \in RelatedIds, a \in RelatedIds \cup {NULL}, n \in Isbns :
           UpdateBook(b, "Emma", a, n)
    \/ \E b \in RelatedIds : DeleteBook(b)
    \/ \E i \in RelatedIds, b \in RelatedIds \cup {NULL}, u \in RelatedIds \cup {NULL},
          c \in BOOLEAN :
           CreateInstance(i, b, "Penguin 1999", NULL, u, Omitted, c)
    \/ \E i \in RelatedIds, b \in RelatedIds \cup {NULL}, u \in RelatedIds \cup {NULL},
          c \in BOOLEAN :
           UpdateInstance(i, b, "Penguin 1999", NULL, u, StatusDefault, c)
    \/ \E i \in RelatedIds : DeleteInstance(i)

SpecRef == Init /\ [][NextRef]_vars

\* ==== properties ============================================================

\* C1: whenever is_overdue is read for a BookInstance, the value returned is
\* true if and only if due_back is set and strictly earlier than the current
\* date (so false for a null due_back and false when due_back is today).
C1_OverdueIff ==
    [][\A i \in DOMAIN instances :
          (result'.op = "BookInstance.is_overdue" /\ result'.id = i /\ today' = today)
            => (result'.flag <=>
                  (instances[i].due_back # NULL /\ instances[i].due_back < today))]_vars

C1_Witness ==
    /\ result.op = "BookInstance.is_overdue"
    /\ result.flag
    /\ result.id \in DOMAIN instances
    /\ instances[result.id].due_back # NULL
    /\ instances[result.id].due_back < today

\* Attachment order of the genres of a Book: the order of its through rows.
FirstThreeAttached(b) == SliceThree(books[b].genre)

\* C2 (as stated): display_genre returns the names of the first three genres
\* in the order in which they were attached, joined by ', '.
C2_AttachmentOrder ==
    (result.op = "Book.display_genre" /\ result.id \in DOMAIN books)
        => result.text = Join(", ", NamesOf(FirstThreeAttached(result.id)))

\* The selections of k distinct genres among those attached, in any order.
Selections(attached, k) ==
    {p \in [1..k -> Range(attached)] : \A x, y \in 1..k : x # y => p[x] # p[y]}

\* C2 (amended): display_genre returns the names of min(3, n) distinct genres
\* among the n attached to the book, joined by ', ', in some order.
C2_AtMostThreeAttached ==
    (result.op = "Book.display_genre" /\ result.id \in DOMAIN books)
        => LET attached == books[result.id].genre
               k == IF Len(attached) < 3 THEN Len(attached) ELSE 3
           IN  \E p \in Selections(attached, k) : result.text = Join(", ", NamesOf(p))

C2_Witness ==
    /\ result.op = "Book.display_genre"
    /\ result.id \in DOMAIN books
    /\ Len(books[result.id].genre) > 3
    /\ result.text # ""

\* C3: no two stored Books have the same isbn, and a create or update of a
\* Book to an isbn held by another stored Book fails with IntegrityError and
\* leaves every table unchanged.
C3_UniqueIsbn ==
    /\ [](\A b1, b2 \in DOMAIN books : b1 # b2 => books[b1].isbn # books[b2].isbn)
    /\ [][\A b \in BookIds :
            ( /\ result'.op \in {"Book.create", "Book.update"}
              /\ result'.id = b
              /\ \E o \in DOMAIN books \ {b} : books[o].isbn = result'.arg )
            => (result'.outcome = "IntegrityError" /\ UNCHANGED tables)]_vars

C3_Witness ==
    /\ result.op = "Book.create"
    /\ result.outcome = "IntegrityError"
    /\ \E o \in DOMAIN books \ {result.id} :
          books[o].isbn = result.arg /\ FkOk(books[o].author, authors)
    /\ Cardinality(DOMAIN books) = 1

\* C4: while a BookInstance references a Book, the Book stays stored and a
\* delete of it fails with RestrictedError leaving every table unchanged; a
\* delete of a Book that no BookInstance references removes it.
C4_RestrictedDelete ==
    [][\A b \in DOMAIN books :
          /\ (\E i \in DOMAIN instances : instances[i].book = b) =>
                /\ b \in DOMAIN books'
                /\ (result'.op = "Book.delete" /\ result'.id = b) =>
                      (result'.outcome = "RestrictedError" /\ UNCHANGED tables)
          /\ ( /\ result'.op = "Book.delete"
               /\ result'.id = b
               /\ ~\E i \in DOMAIN instances : instances[i].book = b )
             => (result'.outcome = "ok" /\ b \notin DOMAIN books')]_vars

C4_Witness ==
    /\ result.op = "Book.delete"
    /\ result.outcome = "RestrictedError"
    /\ result.id \in DOMAIN books
    /\ \E i \in DOMAIN instances : instances[i].book = result.id

\* C5: deleting an Author succeeds; every Book stays stored, the Books that
\* referenced the Author have author NULL and every other field of every Book,
\* the author of the other Books included, is unchanged.
C5_AuthorDeleteSetsNull ==
    [][\A a \in authors :
          (result'.op = "Author.delete" /\ result'.id = a) =>
             /\ result'.outcome = "ok"
             /\ a \notin authors'
             /\ DOMAIN books' = DOMAIN books
             /\ \A b \in DOMAIN books :
                   books'[b] = [books[b] EXCEPT !.author = IF @ = a THEN NULL ELSE @]]_vars

C5_Witness ==
    /\ result.op = "Author.delete"
    /\ result.affected # {}
    /\ \A b \in result.affected : b \in DOMAIN books /\ books[b].author = NULL
    /\ \E b \in DOMAIN books : books[b].author # NULL

\* C6 (as stated): the status of every stored BookInstance is one of the four
\* values of LOAN_STATUS.
C6_StatusInChoices ==
    \A i \in DOMAIN instances : instances[i].status \in LOAN_STATUS

\* C7: deleting a user succeeds; every BookInstance stays stored, those the
\* user had borrowed have borrower NULL, and book, imprint, due_back and
\* status of every BookInstance are unchanged.
C7_UserDeleteSetsNull ==
    [][\A u \in users :
          (result'.op = "User.delete" /\ result'.id = u) =>
             /\ result'.outcome = "ok"
             /\ u \notin users'
             /\ DOMAIN instances' = DOMAIN instances
             /\ \A i \in DOMAIN instances :
                   instances'[i] =
                     [instances[i] EXCEPT !.borrower = IF @ = u THEN NULL ELSE @]]_vars

C7_Witness ==
    /\ result.op = "User.delete"
    /\ Cardinality(result.affected) = 2
    /\ \A i \in result.affected :
          /\ i \in DOMAIN instances
          /\ instances[i].borrower = NULL
          /\ instances[i].status = "o"
          /\ instances[i].due_back # NULL

\* C8 (as stated): the string form of every stored BookInstance is computed
\* without an error and reads '<id>(<book title>)'.
C8_StrNeverRaises ==
    (result.op = "BookInstance.__str__" /\ result.id \in DOMAIN instances)
        => /\ result.outcome = "ok"
           /\ \E t \in Titles : result.text = IdStr(result.id) \o "(" \o t \o ")"

\* C9: every non-null Book.author is a stored Author, every non-null
\* BookInstance.book is a stored Book and every non-null
\* BookInstance.borrower is a stored user.
C9_ReferentialIntegrity ==
    /\ \A b \in DOMAIN books : books[b].author # NULL => books[b].author \in authors
    /\ \A i \in DOMAIN instances :
          /\ instances[i].book # NULL => instances[i].book \in DOMAIN books
          /\ instances[i].borrower # NULL => instances[i].borrower \in users

C9_Witness ==
    /\ result.op = "Author.delete"
    /\ result.affected # {}
    /\ \E i \in DOMAIN instances : instances[i].book \in result.affected

====
